---- MODULE Spec2Model ----
(***************************************************************************)
(* Model of the option-chain signal engine:                                *)
(*   src/src/signals/signal_generator.py  EnhancedSignalGenerator          *)
(*   src/main.py                          EnhancedOptionChainSignalEngine  *)
(*   src/src/analytics/oi_analyzer.py     OIQualityAnalyzer                *)
(*                                                                         *)
(* Python dicts are TLA+ functions whose DOMAIN is the set of keys that    *)
(* are present; d.get(k, default) is _get(d, k, default); a list is a      *)
(* sequence.  Every float of the program is held as the integer            *)
(* value * Scale (hundredths).  The float inputs are drawn from grids on   *)
(* which binary floating point gives the exact decimal result (scores in   *)
(* steps of 0.05, shifts in whole hundredths), so integer arithmetic on    *)
(* the scaled values is what the program computes.                         *)
(***************************************************************************)
EXTENDS Integers, Sequences, FiniteSets, TLC

VARIABLES
    all_analyses,     \* the analyses map handed to the generator
    scores,           \* result of _calculate_score_components
    filters,          \* result of _apply_advanced_filters
    tier,             \* branch taken at signal_generator.py:40-45
    signal,           \* value returned by generate_enhanced_signal
    gen_pc,           \* position of the generator / pure-function harness
    historical_data,  \* EnhancedOptionChainSignalEngine.historical_data
    current_data,     \* snapshot fetched by the running cycle
    result,           \* value returned by the last run_enhanced_cycle
    pc,               \* position of run_enhanced_cycle
    cycles,           \* number of cycles started so far
    errors,           \* number of cycles that ended in the except branch
    assembled,        \* history variable: the cycles whose Signal was assembled
    replay            \* the snapshot and history a cycle is run on twice, and
                      \* the two results

vars == <<all_analyses, scores, filters, tier, signal, gen_pc,
          historical_data, current_data, result, pc, cycles, errors, assembled,
          replay>>

genVars == <<all_analyses, scores, filters, tier, signal, gen_pc>>
engineVars == <<historical_data, current_data, result, pc, cycles, errors, assembled,
                replay>>

-----------------------------------------------------------------------------
(* Bounds of the model.                                                    *)

MaxFresh == 4       \* longest fresh_build list
MaxTrapped == 4     \* longest trapped_positions list
MaxStrikes == 3     \* most strikes in one_sided_skew
MaxLevels == 3      \* longest structural_levels list
MaxCycles == 6      \* cycles the engine is run for

-----------------------------------------------------------------------------
(* Python primitives.                                                      *)

Scale == 100

EmptyDict == <<>>
EmptyList == <<>>
None == "None"

_get(d, k, dflt) == IF k \in DOMAIN d THEN d[k] ELSE dflt

min(a, b) == IF a <= b THEN a ELSE b
max(a, b) == IF a >= b THEN a ELSE b
abs(a) == IF a < 0 THEN -a ELSE a

\* truth value of a list: non-empty
truthy(l) == Len(l) > 0

ListOf(n) == [i \in 1..n |-> i]

-----------------------------------------------------------------------------
(* EnhancedSignalGenerator._calculate_score_components                     *)

\* data['skew_type'] raises KeyError on an entry without that key
\* (signal_generator.py:71 and :253).
SkewKeyError(analyses) ==
    LET iv_skew == _get(analyses, "iv_skew_enhanced", EmptyDict)
        one_sided == _get(iv_skew, "one_sided_skew", EmptyDict)
    IN  \E strike \in DOMAIN one_sided : "skew_type" \notin DOMAIN one_sided[strike]

\* number of strikes of one_sided_skew whose skew_type is in types
SkewCount(analyses, types) ==
    LET iv_skew == _get(analyses, "iv_skew_enhanced", EmptyDict)
        one_sided == _get(iv_skew, "one_sided_skew", EmptyDict)
    IN  Cardinality({strike \in DOMAIN one_sided :
            /\ "skew_type" \in DOMAIN one_sided[strike]
            /\ one_sided[strike].skew_type \in types})

oi_quality_score(analyses) ==
    LET oi_quality == _get(analyses, "oi_quality", EmptyDict)
        fresh_build_score ==
            min(Len(_get(oi_quality, "fresh_build", EmptyList)) * 10 * Scale, 30 * Scale)
        trapped_score ==
            min(Len(_get(oi_quality, "trapped_positions", EmptyList)) * (-5) * Scale, (-15) * Scale)
    IN  max(0, fresh_build_score + trapped_score)

iv_alignment_score(analyses) ==
    min(SkewCount(analyses, {"CE_FEAR", "PE_FEAR"}) * 10 * Scale, 20 * Scale)

time_score(analyses) ==
    LET time_decay == _get(analyses, "time_decay", EmptyDict)
        time_phase == _get(time_decay, "time_phase", "")
    IN  IF time_phase = "GAMMA_GAME_PHASE" THEN 15 * Scale
        ELSE IF time_phase = "SELLER_COMFORT_WINDOW" THEN 5 * Scale
        ELSE 10 * Scale

\* mutation: the shift is scored without the cap of 15
max_pain_score_uncapped(analyses) ==
    LET max_pain == _get(analyses, "max_pain", EmptyDict)
    IN  abs(_get(max_pain, "shift", 0)) * 100

max_pain_score(analyses) ==
    LET max_pain == _get(analyses, "max_pain", EmptyDict)
        shift_strength == abs(_get(max_pain, "shift", 0))
    IN  min(shift_strength * 100, 15 * Scale)

depth_score(analyses) ==
    LET support_depth == _get(analyses, "support_depth", EmptyDict)
        below_depth == _get(support_depth, "below_support", EmptyDict)
        above_depth == _get(support_depth, "above_resistance", EmptyDict)
        air_pockets == _get(support_depth, "air_pockets", EmptyList)
    IN  (IF _get(below_depth, "has_depth", FALSE) THEN 5 * Scale ELSE 0)
      + (IF _get(above_depth, "has_depth", FALSE) THEN 5 * Scale ELSE 0)
      + (IF truthy(air_pockets) THEN 10 * Scale ELSE 0)

elasticity_score(analyses) ==
    LET elasticity == _get(analyses, "elasticity", EmptyDict)
        sticky_zones == _get(elasticity, "sticky_zones", EmptyList)
        elastic_zones == _get(elasticity, "elastic_zones", EmptyList)
    IN  (IF truthy(sticky_zones) THEN 10 * Scale ELSE 0)
      + (IF truthy(elastic_zones) THEN 5 * Scale ELSE 0)

mtf_score(analyses) ==
    LET multi_timeframe == _get(analyses, "multi_timeframe", EmptyDict)
        alignment == _get(multi_timeframe, "timeframe_alignment", EmptyDict)
    IN  _get(alignment, "score", 0) * 20

migration_score(analyses) ==
    LET oi_migration == _get(analyses, "oi_migration", EmptyDict)
        migration_trend == _get(oi_migration, "migration_trend", EmptyDict)
    IN  IF _get(migration_trend, "overall", None) \in {"BULLISH", "BEARISH"}
        THEN _get(oi_migration, "trend_strength", 0) * 15
        ELSE 0

pcr_score(analyses) ==
    LET zone_pcr == _get(analyses, "zone_pcr", EmptyDict)
        pcr_divergence == _get(zone_pcr, "pcr_divergence", EmptyDict)
    IN  10 * Scale
      + (IF _get(pcr_divergence, "trading_implication", None) = "FADE_GLOBAL_PCR"
         THEN 5 * Scale ELSE 0)

expiry_score(analyses) ==
    LET expiry_alignment == _get(analyses, "expiry_alignment", EmptyDict)
    IN  _get(expiry_alignment, "overall_alignment_score", 0) * 10

\* mutation: the expiry component is left out of the sum
total_score_nine(analyses) ==
      oi_quality_score(analyses) + iv_alignment_score(analyses)
    + time_score(analyses) + max_pain_score(analyses)
    + depth_score(analyses) + elasticity_score(analyses)
    + mtf_score(analyses) + migration_score(analyses)
    + pcr_score(analyses)

\* sum(scores.values()) at signal_generator.py:156
total_score(analyses) ==
      oi_quality_score(analyses) + iv_alignment_score(analyses)
    + time_score(analyses) + max_pain_score(analyses)
    + depth_score(analyses) + elasticity_score(analyses)
    + mtf_score(analyses) + migration_score(analyses)
    + pcr_score(analyses) + expiry_score(analyses)


\* mutation: the sum is returned without the cap
normalized_score_uncapped(total) == total

normalized_score(total) == min(total, 100 * Scale)

\* The dict returned when no KeyError is raised.
_calculate_score_components(analyses) ==
    LET breakdown ==
            [oi_quality_score    |-> oi_quality_score(analyses),
             iv_alignment_score  |-> iv_alignment_score(analyses),
             time_score          |-> time_score(analyses),
             max_pain_score      |-> max_pain_score(analyses),
             depth_score         |-> depth_score(analyses),
             elasticity_score    |-> elasticity_score(analyses),
             mtf_score           |-> mtf_score(analyses),
             migration_score     |-> migration_score(analyses),
             pcr_score           |-> pcr_score(analyses),
             expiry_score        |-> expiry_score(analyses),
             final_score         |-> normalized_score(total_score(analyses))]
    IN  [k \in DOMAIN breakdown \cup {"component_breakdown"} |->
            IF k = "component_breakdown" THEN breakdown ELSE breakdown[k]]

-----------------------------------------------------------------------------
(* EnhancedSignalGenerator._apply_advanced_filters                         *)

oi_quality_filter(analyses) ==
    LET oi_quality == _get(analyses, "oi_quality", EmptyDict)
        trapped_count == Len(_get(oi_quality, "trapped_positions", EmptyList))
        fresh_count == Len(_get(oi_quality, "fresh_build", EmptyList))
    IN  fresh_count > trapped_count * 2

iv_skew_filter(analyses) ==
    LET iv_skew == _get(analyses, "iv_skew_enhanced", EmptyDict)
        fear_zones == _get(iv_skew, "fear_zones", EmptyDict)
    IN  _get(fear_zones, "above", FALSE) \/ _get(fear_zones, "below", FALSE)

time_filter(analyses) ==
    LET time_decay == _get(analyses, "time_decay", EmptyDict)
        time_phase == _get(time_decay, "time_phase", "")
    IN  time_phase # "SELLER_COMFORT_WINDOW"

depth_filter(analyses) ==
    LET support_depth == _get(analyses, "support_depth", EmptyDict)
        air_pockets == _get(support_depth, "air_pockets", EmptyList)
    IN  truthy(air_pockets)

\* mutation: a gamma_risk of 0.7 passes
elasticity_filter_inclusive(analyses) ==
    LET elasticity == _get(analyses, "elasticity", EmptyDict)
        gamma_risk == _get(elasticity, "gamma_risk", 0)
    IN  gamma_risk * 10 <= 7 * Scale

\* gamma_risk < 0.7, on hundredths
elasticity_filter(analyses) ==
    LET elasticity == _get(analyses, "elasticity", EmptyDict)
        gamma_risk == _get(elasticity, "gamma_risk", 0)
    IN  gamma_risk * 10 < 7 * Scale

mtf_filter(analyses) ==
    LET multi_timeframe == _get(analyses, "multi_timeframe", EmptyDict)
        structural_levels == _get(multi_timeframe, "structural_levels", EmptyList)
    IN  Len(structural_levels) >= 2

FilterNames == {"oi_quality_filter", "iv_skew_filter", "time_filter",
                "depth_filter", "elasticity_filter", "mtf_filter"}

\* the six named entries of the filters dict, all_passed still False
SixFilters(analyses) ==
    [oi_quality_filter |-> oi_quality_filter(analyses),
     iv_skew_filter    |-> iv_skew_filter(analyses),
     time_filter       |-> time_filter(analyses),
     depth_filter      |-> depth_filter(analyses),
     elasticity_filter |-> elasticity_filter(analyses),
     mtf_filter        |-> mtf_filter(analyses)]

\* sum(filters.values()) - 1 at signal_generator.py:220; 'all_passed' is
\* still False when the sum is taken, so it contributes 0 to the sum.
passed_filters(six) == Cardinality({f \in DOMAIN six : six[f]}) + 0 - 1

all_passed(six) == passed_filters(six) >= 4

_apply_advanced_filters(analyses) ==
    LET six == SixFilters(analyses)
    IN  [k \in FilterNames \cup {"all_passed"} |->
            IF k = "all_passed" THEN all_passed(six) ELSE six[k]]

-----------------------------------------------------------------------------
(* EnhancedSignalGenerator._generate_final_signal                          *)

migration_overall(analyses) ==
    LET oi_migration == _get(analyses, "oi_migration", EmptyDict)
        migration_trend == _get(oi_migration, "migration_trend", EmptyDict)
    IN  _get(migration_trend, "overall", None)

max_pain_direction(analyses) ==
    _get(_get(analyses, "max_pain", EmptyDict), "direction", None)

\* mutation: at most two CE_FEAR strikes are counted
bull_components_capped(analyses) ==
      (IF migration_overall(analyses) = "BULLISH" THEN 2 ELSE 0)
    + (IF max_pain_direction(analyses) = "UP" THEN 1 ELSE 0)
    + min(SkewCount(analyses, {"CE_FEAR"}), 2)

bull_components(analyses) ==
      (IF migration_overall(analyses) = "BULLISH" THEN 2 ELSE 0)
    + (IF max_pain_direction(analyses) = "UP" THEN 1 ELSE 0)
    + SkewCount(analyses, {"CE_FEAR"})

\* mutation: a BEARISH migration trend counts for one vote
bear_components_single_weight(analyses) ==
      (IF migration_overall(analyses) = "BEARISH" THEN 1 ELSE 0)
    + (IF max_pain_direction(analyses) = "DOWN" THEN 1 ELSE 0)
    + SkewCount(analyses, {"PE_FEAR"})

bear_components(analyses) ==
      (IF migration_overall(analyses) = "BEARISH" THEN 2 ELSE 0)
    + (IF max_pain_direction(analyses) = "DOWN" THEN 1 ELSE 0)
    + SkewCount(analyses, {"PE_FEAR"})


\* mutation: a lead of one vote is enough
resolve_direction_simple_majority(bull, bear) ==
    IF bull > bear THEN "BUY_CALL"
    ELSE IF bear > bull THEN "BUY_PUT"
    ELSE "NO_TRADE"
\* signal_generator.py:259-270
resolve_direction(bull, bear) ==
    IF bull > bear + 1 THEN "BUY_CALL"
    ELSE IF bear > bull + 1 THEN "BUY_PUT"
    ELSE "NO_TRADE"


\* mutation: the boost is not capped
boosted_confidence_uncapped(final_score) == final_score + 10 * Scale

boosted_confidence(final_score) == min(final_score + 10 * Scale, 95 * Scale)

_generate_final_signal(sc, analyses) ==
    LET direction == resolve_direction(bull_components(analyses), bear_components(analyses))
    IN  [signal |-> direction,
         confidence |-> IF direction = "NO_TRADE" THEN 0
                        ELSE boosted_confidence(sc.final_score),
         tags |-> IF direction = "NO_TRADE" THEN <<"MIXED_SIGNALS">>
                  ELSE <<"HIGH_CONFIDENCE", "MULTI_FACTOR_ALIGNED">>,
         score_breakdown |-> sc.component_breakdown,
         filters_passed |-> _apply_advanced_filters(analyses)]

-----------------------------------------------------------------------------
(* Methods that generate_enhanced_signal calls and signal_generator.py     *)
(* does not define; taken from section 4.4 of the specification.           *)

_generate_cautious_signal(sc, analyses) ==
    LET direction == resolve_direction(bull_components(analyses), bear_components(analyses))
    IN  [signal |-> direction,
         confidence |-> IF direction = "NO_TRADE" THEN 0 ELSE sc.final_score,
         tags |-> IF direction = "NO_TRADE" THEN <<"MIXED_SIGNALS">>
                  ELSE <<"CAUTIOUS", "MULTI_FACTOR_ALIGNED">>,
         score_breakdown |-> sc.component_breakdown,
         filters_passed |-> _apply_advanced_filters(analyses)]

_generate_no_trade_signal(analyses) ==
    LET fl == _apply_advanced_filters(analyses)
    IN  [signal |-> "NO_TRADE",
         confidence |-> 0,
         tags |-> IF fl.all_passed THEN <<"LOW_SCORE">> ELSE <<"FILTERS_FAILED">>,
         score_breakdown |-> _calculate_score_components(analyses).component_breakdown,
         filters_passed |-> fl]

_calculate_quality_metrics(analyses) ==
    [filters_passed |-> passed_filters(SixFilters(analyses)),
     final_score |-> _calculate_score_components(analyses).final_score]

-----------------------------------------------------------------------------
(* EnhancedSignalGenerator._generate_advanced_context                      *)

\* context has no 'insights' key: context['insights'].append raises
\* KeyError whenever sticky_zones is non-empty (signal_generator.py:295-296).
ContextKeyError(analyses) ==
    LET elasticity == _get(analyses, "elasticity", EmptyDict)
    IN  truthy(_get(elasticity, "sticky_zones", EmptyList))

_generate_advanced_context(analyses) ==
    LET support_depth == _get(analyses, "support_depth", EmptyDict)
        multi_timeframe == _get(analyses, "multi_timeframe", EmptyDict)
        regime_shift == _get(multi_timeframe, "regime_shift", EmptyDict)
    IN  [key_insights |-> EmptyList,
         risk_factors |-> IF _get(regime_shift, "detected", FALSE)
                          THEN <<"REGIME_SHIFT_DETECTED">> ELSE EmptyList,
         opportunities |-> IF truthy(_get(support_depth, "air_pockets", EmptyList))
                           THEN <<"AIR_POCKET_BREAKOUT_POTENTIAL">> ELSE EmptyList,
         time_context |-> _get(_get(analyses, "time_decay", EmptyDict), "time_phase", "")]

-----------------------------------------------------------------------------
(* EnhancedSignalGenerator.generate_enhanced_signal                        *)


\* mutation: the thresholds are inclusive
select_tier_inclusive(passed, final_score) ==
    IF passed /\ final_score >= 75 * Scale THEN "STRONG"
    ELSE IF passed /\ final_score >= 60 * Scale THEN "CAUTIOUS"
    ELSE "NO_TRADE"
\* mutation: the tier is chosen by the score alone
select_tier_ungated(passed, final_score) ==
    IF final_score > 75 * Scale THEN "STRONG"
    ELSE IF final_score > 60 * Scale THEN "CAUTIOUS"
    ELSE "NO_TRADE"
\* the branch taken at signal_generator.py:40-45
select_tier(passed, final_score) ==
    IF passed /\ final_score > 75 * Scale THEN "STRONG"
    ELSE IF passed /\ final_score > 60 * Scale THEN "CAUTIOUS"
    ELSE "NO_TRADE"

tier_signal(t, sc, analyses) ==
    IF t = "STRONG" THEN _generate_final_signal(sc, analyses)
    ELSE IF t = "CAUTIOUS" THEN _generate_cautious_signal(sc, analyses)
    ELSE _generate_no_trade_signal(analyses)

\* the call raises KeyError at line 71 (score components) or at line 296
\* (advanced context); nothing else in it can raise on dict-shaped input
generate_raises(analyses) == SkewKeyError(analyses) \/ ContextKeyError(analyses)

generate_enhanced_signal(analyses) ==
    LET sc == _calculate_score_components(analyses)
        fl == _apply_advanced_filters(analyses)
        sig == tier_signal(select_tier(fl.all_passed, sc.final_score), sc, analyses)
    IN  [k \in DOMAIN sig \cup {"advanced_context", "quality_metrics"} |->
            IF k = "advanced_context" THEN _generate_advanced_context(analyses)
            ELSE IF k = "quality_metrics" THEN _calculate_quality_metrics(analyses)
            ELSE sig[k]]

-----------------------------------------------------------------------------
(* Analyzer results: the records the analyzers hand to the generator       *)
(* (section 6 of the specification; src/src/analytics/*.py for the three   *)
(* analyzers whose code is present).                                       *)

AnalyzerKeys == <<"oi_quality", "iv_skew_enhanced", "time_decay", "max_pain",
                  "support_depth", "elasticity", "multi_timeframe",
                  "oi_migration", "zone_pcr", "expiry_alignment">>

\* float grids, in hundredths
UnitGrid == {0, 20, 50, 60, 100}
ShiftGrid == {-20, 0, 2, 10}
GammaGrid == {0, 50, 70, 100}

OIQualityVals ==
    {[fresh_build |-> ListOf(f), trapped_positions |-> ListOf(t)] :
        f \in 0..MaxFresh, t \in 0..MaxTrapped}
    \cup {[covering |-> ListOf(1)]}

SkewEntries == {[skew_type |-> "CE_FEAR"], [skew_type |-> "PE_FEAR"],
                [skew_type |-> "BALANCED"], [iv_diff |-> 0]}

\* the strikes of a one_sided_skew dict are listed in the order CE_FEAR,
\* PE_FEAR, BALANCED, malformed: the generator only counts the entries
SkewRank(entry) ==
    IF "skew_type" \notin DOMAIN entry THEN 4
    ELSE IF entry.skew_type = "CE_FEAR" THEN 1
    ELSE IF entry.skew_type = "PE_FEAR" THEN 2
    ELSE 3

OneSidedVals ==
    UNION {{o \in [1..n -> SkewEntries] :
                \A i \in 1..(n - 1) : SkewRank(o[i]) <= SkewRank(o[i + 1])} :
           n \in 0..MaxStrikes}

IVSkewVals ==
    {[one_sided_skew |-> o, fear_zones |-> [above |-> a, below |-> b]] :
        o \in OneSidedVals, a \in BOOLEAN, b \in BOOLEAN}
    \cup {[skew_pockets |-> EmptyList]}

TimeDecayVals ==
    {[time_phase |-> p] :
        p \in {"GAMMA_GAME_PHASE", "SELLER_COMFORT_WINDOW", "THETA_DECAY_PHASE"}}
    \cup {[urgency |-> 0]}

MaxPainVals ==
    {[shift |-> s, direction |-> d] : s \in ShiftGrid, d \in {"UP", "DOWN", "FLAT"}}
    \cup {[max_pain_strike |-> 0]}

SupportDepthVals ==
    {[below_support |-> [has_depth |-> b], above_resistance |-> [has_depth |-> a],
      air_pockets |-> ListOf(n)] : b \in BOOLEAN, a \in BOOLEAN, n \in 0..1}
    \cup {[below_support |-> [type |-> "UNKNOWN"]]}

ElasticityVals ==
    {[sticky_zones |-> ListOf(s), elastic_zones |-> ListOf(e), gamma_risk |-> g] :
        s \in 0..1, e \in 0..1, g \in GammaGrid}
    \cup {[elastic_zones |-> ListOf(1)]}

MultiTimeframeVals ==
    {[timeframe_alignment |-> [score |-> a], structural_levels |-> ListOf(n),
      regime_shift |-> [detected |-> r]] :
        a \in UnitGrid, n \in 0..MaxLevels, r \in BOOLEAN}
    \cup {[timeframe_alignment |-> [quality |-> "POOR"]]}

OIMigrationVals ==
    {[migration_trend |-> [overall |-> o], trend_strength |-> g] :
        o \in {"BULLISH", "BEARISH", "NEUTRAL"}, g \in UnitGrid}
    \cup {[trend_strength |-> 100]}

ZonePCRVals ==
    {[pcr_divergence |-> [trading_implication |-> i]] :
        i \in {"FADE_GLOBAL_PCR", "FOLLOW_GLOBAL_PCR"}}
    \cup {[zone_pcr |-> 0]}

ExpiryAlignmentVals ==
    {[overall_alignment_score |-> a] : a \in UnitGrid}

AnalyzerVals(key) ==
    CASE key = "oi_quality"       -> OIQualityVals
      [] key = "iv_skew_enhanced" -> IVSkewVals
      [] key = "time_decay"       -> TimeDecayVals
      [] key = "max_pain"         -> MaxPainVals
      [] key = "support_depth"    -> SupportDepthVals
      [] key = "elasticity"       -> ElasticityVals
      [] key = "multi_timeframe"  -> MultiTimeframeVals
      [] key = "oi_migration"     -> OIMigrationVals
      [] key = "zone_pcr"         -> ZonePCRVals
      [] key = "expiry_alignment" -> ExpiryAlignmentVals

\* d[k] = v, and del d[k]
Put(d, k, v) == [x \in DOMAIN d \cup {k} |-> IF x = k THEN v ELSE d[x]]
Drop(d, k) == [x \in DOMAIN d \ {k} |-> d[x]]

\* no analyzer reported anything
EmptyMap == [x \in {} |-> 0]

\* every filter true, final_score 82, migration BULLISH, max pain UP
Map82 ==
    [oi_quality |-> [fresh_build |-> ListOf(3), trapped_positions |-> ListOf(0)],
     iv_skew_enhanced |-> [one_sided_skew |-> EmptyDict,
                           fear_zones |-> [above |-> TRUE, below |-> FALSE]],
     time_decay |-> [time_phase |-> "GAMMA_GAME_PHASE"],
     max_pain |-> [shift |-> 2, direction |-> "UP"],
     support_depth |-> [below_support |-> [has_depth |-> TRUE],
                        above_resistance |-> [has_depth |-> FALSE],
                        air_pockets |-> ListOf(1)],
     elasticity |-> [sticky_zones |-> ListOf(0), elastic_zones |-> ListOf(1),
                     gamma_risk |-> 50],
     multi_timeframe |-> [timeframe_alignment |-> [score |-> 60],
                          structural_levels |-> ListOf(2),
                          regime_shift |-> [detected |-> FALSE]],
     oi_migration |-> [migration_trend |-> [overall |-> "BULLISH"],
                       trend_strength |-> 20],
     zone_pcr |-> [pcr_divergence |-> [trading_implication |-> "FOLLOW_GLOBAL_PCR"]],
     expiry_alignment |-> [overall_alignment_score |-> 50]]

\* every component at its largest value that does not raise, votes balanced
MapHigh ==
    [oi_quality |-> [fresh_build |-> ListOf(MaxFresh), trapped_positions |-> ListOf(0)],
     iv_skew_enhanced |-> [one_sided_skew |-> <<[skew_type |-> "CE_FEAR"],
                                                [skew_type |-> "PE_FEAR"]>>,
                           fear_zones |-> [above |-> TRUE, below |-> TRUE]],
     time_decay |-> [time_phase |-> "GAMMA_GAME_PHASE"],
     max_pain |-> [shift |-> -20, direction |-> "FLAT"],
     support_depth |-> [below_support |-> [has_depth |-> TRUE],
                        above_resistance |-> [has_depth |-> TRUE],
                        air_pockets |-> ListOf(1)],
     elasticity |-> [sticky_zones |-> ListOf(0), elastic_zones |-> ListOf(1),
                     gamma_risk |-> 0],
     multi_timeframe |-> [timeframe_alignment |-> [score |-> 100],
                          structural_levels |-> ListOf(MaxLevels),
                          regime_shift |-> [detected |-> TRUE]],
     oi_migration |-> [migration_trend |-> [overall |-> "NEUTRAL"],
                       trend_strength |-> 100],
     zone_pcr |-> [pcr_divergence |-> [trading_implication |-> "FADE_GLOBAL_PCR"]],
     expiry_alignment |-> [overall_alignment_score |-> 100]]

BaseMaps == {EmptyMap, Map82, MapHigh}

\* the maps obtained from d by replacing or removing the entry of one analyzer
Variants(d, key) == {Drop(d, key)} \cup {Put(d, key, v) : v \in AnalyzerVals(key)}

\* all_analyses is a map that differs from a base map in at most two analyzers
DrawAnalyses ==
    \E base \in BaseMaps : \E i \in DOMAIN AnalyzerKeys : \E j \in i..Len(AnalyzerKeys) :
        \E d \in Variants(base, AnalyzerKeys[i]) :
            all_analyses \in Variants(d, AnalyzerKeys[j])

-----------------------------------------------------------------------------
(* The three functions of the generator, each applied to a drawn map.      *)

NotRun == [x \in {} |-> 0]

EngineIdle ==
    /\ historical_data = <<>>
    /\ current_data = None
    /\ result = NotRun
    /\ pc = "idle"
    /\ cycles = 0
    /\ errors = 0
    /\ assembled = <<>>
    /\ replay = NotRun

GenInit ==
    /\ DrawAnalyses
    /\ scores = NotRun
    /\ filters = NotRun
    /\ tier = "NONE"
    /\ signal = NotRun
    /\ gen_pc = "start"
    /\ EngineIdle

\* scores = self._calculate_score_components(analyses)
CalcScoreReturns ==
    /\ gen_pc = "start"
    /\ ~SkewKeyError(all_analyses)
    /\ scores' = _calculate_score_components(all_analyses)
    /\ gen_pc' = "returned"
    /\ UNCHANGED <<all_analyses, filters, tier, signal>>
    /\ UNCHANGED engineVars

CalcScoreRaises ==
    /\ gen_pc = "start"
    /\ SkewKeyError(all_analyses)
    /\ gen_pc' = "raised"
    /\ UNCHANGED <<all_analyses, scores, filters, tier, signal>>
    /\ UNCHANGED engineVars

ScoreNext == CalcScoreReturns \/ CalcScoreRaises

ScoreSpec == GenInit /\ [][ScoreNext]_vars

\* filters = self._apply_advanced_filters(analyses); it cannot raise
ApplyFilters ==
    /\ gen_pc = "start"
    /\ filters' = _apply_advanced_filters(all_analyses)
    /\ gen_pc' = "returned"
    /\ UNCHANGED <<all_analyses, scores, tier, signal>>
    /\ UNCHANGED engineVars

FilterNext == ApplyFilters

FilterSpec == GenInit /\ [][FilterNext]_vars

\* signal = generate_enhanced_signal(all_analyses), returning
GenerateReturns ==
    /\ gen_pc = "start"
    /\ ~generate_raises(all_analyses)
    /\ scores' = _calculate_score_components(all_analyses)
    /\ filters' = _apply_advanced_filters(all_analyses)
    /\ tier' = select_tier(filters'.all_passed, scores'.final_score)
    /\ signal' = generate_enhanced_signal(all_analyses)
    /\ gen_pc' = "returned"
    /\ UNCHANGED all_analyses
    /\ UNCHANGED engineVars

\* generate_enhanced_signal raising KeyError at line 71, before the tier is chosen
GenerateRaisesInScore ==
    /\ gen_pc = "start"
    /\ SkewKeyError(all_analyses)
    /\ gen_pc' = "raised"
    /\ UNCHANGED <<all_analyses, scores, filters, tier, signal>>
    /\ UNCHANGED engineVars

\* generate_enhanced_signal raising KeyError at line 296, after the tier's
\* signal was built
GenerateRaisesInContext ==
    /\ gen_pc = "start"
    /\ ~SkewKeyError(all_analyses)
    /\ ContextKeyError(all_analyses)
    /\ scores' = _calculate_score_components(all_analyses)
    /\ filters' = _apply_advanced_filters(all_analyses)
    /\ tier' = select_tier(filters'.all_passed, scores'.final_score)
    /\ gen_pc' = "raised"
    /\ UNCHANGED <<all_analyses, signal>>
    /\ UNCHANGED engineVars

SignalNext == GenerateReturns \/ GenerateRaisesInScore \/ GenerateRaisesInContext

SignalSpec == GenInit /\ [][SignalNext]_vars

-----------------------------------------------------------------------------
(* EnhancedOptionChainSignalEngine.run_enhanced_cycle                      *)

HistoryCap == 100

\* the option chains a fetch may return, named by what the analyzers find
\* in them
Chains == {"QUIET", "MAP82", "MAP_HIGH", "TREND_UP", "TREND_DOWN", "STICKY",
           "MALFORMED_SKEW", "NO_STRIKES"}

\* self._fetch_current_data() of the n-th cycle; every fetch is a new snapshot
Snapshot(n, chain) == [spot_price |-> n, timestamp |-> n, chain_data |-> chain]

\* Map82 with a sticky zone, and Map82 with a skew entry without skew_type
StickyMap == Put(Map82, "elasticity",
                 [sticky_zones |-> ListOf(1), elastic_zones |-> ListOf(1), gamma_risk |-> 50])
MalformedSkewMap == Put(Map82, "iv_skew_enhanced",
                        [one_sided_skew |-> <<[iv_diff |-> 0]>>,
                         fear_zones |-> [above |-> TRUE, below |-> FALSE]])

\* MapHigh with the migration trend and the max pain shift on one side
TrendUpMap == Put(Put(MapHigh, "oi_migration",
                      [migration_trend |-> [overall |-> "BULLISH"], trend_strength |-> 100]),
                  "max_pain", [shift |-> 20, direction |-> "UP"])
TrendDownMap == Put(Put(MapHigh, "oi_migration",
                        [migration_trend |-> [overall |-> "BEARISH"], trend_strength |-> 100]),
                    "max_pain", [shift |-> -20, direction |-> "DOWN"])

\* every analyzer returning an empty dict
QuietMap == [k \in {AnalyzerKeys[i] : i \in DOMAIN AnalyzerKeys} |-> EmptyDict]

\* what the analyzers other than oi_quality return on a chain; each of them
\* is a function of the snapshot
analyzer_results(chain) ==
    CASE chain = "MAP82" -> Map82
      [] chain = "MAP_HIGH" -> MapHigh
      [] chain = "TREND_UP" -> TrendUpMap
      [] chain = "TREND_DOWN" -> TrendDownMap
      [] chain = "STICKY" -> StickyMap
      [] chain = "MALFORMED_SKEW" -> MalformedSkewMap
      [] OTHER -> QuietMap

\* OIQualityAnalyzer.analyze_quality with an empty history: the four empty
\* lists (oi_analyzer.py:26-34)
analyze_quality(data, history) ==
    [fresh_build |-> EmptyList, trapped_positions |-> EmptyList,
     covering |-> EmptyList, stale_positions |-> EmptyList]

\* With a history the loop of oi_analyzer.py:39 runs over every key of
\* current_data; 'spot_price' is one of them (main.py:48) and line 60 calls
\* .get on the spot price: AttributeError.
analyze_quality_raises(data, history) ==
    Len(history) > 0 /\ "spot_price" \in DOMAIN data

\* SupportDepthAnalyzer._calculate_stiffness_scores takes min() of the
\* strikes: ValueError on a chain without strikes
\* (support_depth_analyzer.py:123-124)
analyze_depth_raises(data) == data.chain_data = "NO_STRIKES"

\* the exception of the first analyzer of main.py:57-106 that raises
analyzers_raise(data, history) ==
    analyze_quality_raises(data, history) \/ analyze_depth_raises(data)

analyzers_exception(data, history) ==
    IF analyze_quality_raises(data, history) THEN "AttributeError" ELSE "ValueError"

\* the all_analyses literal of main.py:57-106
build_all_analyses(data, history, now) ==
    LET m == analyzer_results(data.chain_data)
    IN  [k \in DOMAIN m \cup {"spot_price", "timestamp", "basic", "oi_quality"} |->
            IF k = "spot_price" THEN data.spot_price
            ELSE IF k = "timestamp" THEN now
            ELSE IF k = "basic" THEN [key_walls |-> EmptyList, support_strikes |-> EmptyList,
                                      resistance_strikes |-> EmptyList]
            ELSE IF k = "oi_quality" THEN analyze_quality(data, history)
            ELSE m[k]]

_summarize_analyses(analyses) ==
    LET fresh == truthy(_get(_get(analyses, "oi_quality", EmptyDict), "fresh_build", EmptyList))
        fear == _get(_get(_get(analyses, "iv_skew_enhanced", EmptyDict),
                          "fear_zones", EmptyDict), "above", FALSE)
        pockets == truthy(_get(_get(analyses, "support_depth", EmptyDict), "air_pockets", EmptyList))
        gamma == _get(_get(analyses, "time_decay", EmptyDict), "time_phase", None) = "GAMMA_GAME_PHASE"
        regime == _get(_get(_get(analyses, "multi_timeframe", EmptyDict),
                            "regime_shift", EmptyDict), "detected", FALSE)
        key_insights ==
               (IF fresh THEN <<"FRESH_OI_BUILDUP">> ELSE <<>>)
            \o (IF fear THEN <<"UPSIDE_FEAR_DETECTED">> ELSE <<>>)
            \o (IF pockets THEN <<"AIR_POCKET_PRESENT">> ELSE <<>>)
            \o (IF gamma THEN <<"HIGH_GAMMA_RISK">> ELSE <<>>)
            \o (IF regime THEN <<"REGIME_SHIFT">> ELSE <<>>)
    IN  [key_insights |-> key_insights, insight_count |-> Len(key_insights)]

\* mutation: the except branch returns the exception without the ERROR tag
error_result_untagged(e, now) ==
    [signal |-> "NO_TRADE", confidence |-> 0, tags |-> <<e>>, timestamp |-> now]

\* mutation: the except branch reports the failure with full confidence
error_result_confident(e, now) ==
    [signal |-> "NO_TRADE", confidence |-> 100 * Scale, tags |-> <<"ERROR", e>>,
     timestamp |-> now]

\* the dict of the except branch, main.py:123-129
error_result(e, now) ==
    [signal |-> "NO_TRADE", confidence |-> 0, tags |-> <<"ERROR", e>>, timestamp |-> now]

\* mutation: the snapshot is not appended
store_history_skip(history, data) == history

\* main.py:112-114
store_history(history, data) ==
    LET appended == Append(history, data)
    IN  IF Len(appended) > HistoryCap THEN Tail(appended) ELSE appended

\* main.py:116-121
cycle_result(sig, analyses, now) ==
    [k \in DOMAIN sig \cup {"timestamp", "spot_price", "analyses_summary"} |->
        IF k = "timestamp" THEN now
        ELSE IF k = "spot_price" THEN analyses.spot_price
        ELSE IF k = "analyses_summary" THEN _summarize_analyses(analyses)
        ELSE sig[k]]

EngineInit ==
    /\ all_analyses = NotRun
    /\ scores = NotRun
    /\ filters = NotRun
    /\ tier = "NONE"
    /\ signal = NotRun
    /\ gen_pc = "start"
    /\ EngineIdle

\* datetime.now(): cycles are 300 s apart (main.py:187), the wall clock is
\* read as the number of the running cycle
wall_clock(n) == n

\* mutation: the except branch appends the snapshot of the failed cycle
Except_storing(e) ==
    /\ result' = error_result(e, wall_clock(cycles'))
    /\ errors' = errors + 1
    /\ pc' = "idle"
    /\ current_data' = None
    /\ all_analyses' = NotRun
    /\ scores' = NotRun
    /\ filters' = NotRun
    /\ tier' = "NONE"
    /\ signal' = NotRun
    /\ gen_pc' = "start"
    /\ historical_data' = (IF pc = "idle" THEN historical_data
                           ELSE store_history(historical_data, current_data))
    /\ UNCHANGED <<assembled, replay>>

\* the except branch: the locals of the cycle are gone, the history is untouched
Except(e) ==
    /\ result' = error_result(e, wall_clock(cycles'))
    /\ errors' = errors + 1
    /\ pc' = "idle"
    /\ current_data' = None
    /\ all_analyses' = NotRun
    /\ scores' = NotRun
    /\ filters' = NotRun
    /\ tier' = "NONE"
    /\ signal' = NotRun
    /\ gen_pc' = "start"
    /\ UNCHANGED <<historical_data, assembled, replay>>

\* mutation: a cycle is begun whatever the position of the running one
FetchReturns_reentrant ==
    /\ cycles < MaxCycles
    /\ cycles' = cycles + 1
    /\ \E chain \in Chains : current_data' = Snapshot(cycles + 1, chain)
    /\ pc' = "analyze"
    /\ UNCHANGED <<historical_data, result, errors, assembled, replay>>
    /\ UNCHANGED genVars

\* main.py:47-49, the fetch returning a snapshot
FetchReturns ==
    /\ pc = "idle"
    /\ cycles < MaxCycles
    /\ cycles' = cycles + 1
    /\ \E chain \in Chains : current_data' = Snapshot(cycles + 1, chain)
    /\ pc' = "analyze"
    /\ UNCHANGED <<historical_data, result, errors, assembled, replay>>
    /\ UNCHANGED genVars

\* main.py:47-49, the fetch raising
FetchRaises ==
    /\ pc = "idle"
    /\ cycles < MaxCycles
    /\ cycles' = cycles + 1
    /\ Except("fetch")

\* main.py:52-106, every analyzer returning
RunAnalyses ==
    /\ pc = "analyze"
    /\ ~analyzers_raise(current_data, historical_data)
    /\ all_analyses' = build_all_analyses(current_data, historical_data, wall_clock(cycles))
    /\ pc' = "generate"
    /\ UNCHANGED <<scores, filters, tier, signal, gen_pc>>
    /\ UNCHANGED <<historical_data, current_data, result, cycles, errors, assembled, replay>>

\* main.py:52-106, an analyzer raising
AnalyzerRaises ==
    /\ pc = "analyze"
    /\ analyzers_raise(current_data, historical_data)
    /\ UNCHANGED cycles
    /\ Except(analyzers_exception(current_data, historical_data))

\* main.py:109, the generator returning the signal
GenerateSignal ==
    /\ pc = "generate"
    /\ ~generate_raises(all_analyses)
    /\ scores' = _calculate_score_components(all_analyses)
    /\ filters' = _apply_advanced_filters(all_analyses)
    /\ tier' = select_tier(filters'.all_passed, scores'.final_score)
    /\ signal' = generate_enhanced_signal(all_analyses)
    /\ gen_pc' = "returned"
    /\ pc' = "store"
    /\ UNCHANGED all_analyses
    /\ UNCHANGED <<historical_data, current_data, result, cycles, errors, assembled, replay>>

\* main.py:109, the generator raising KeyError
GenerateSignalRaises ==
    /\ pc = "generate"
    /\ generate_raises(all_analyses)
    /\ UNCHANGED cycles
    /\ Except("KeyError")

\* main.py:112-121, the history update and the return
StoreAndReturn ==
    /\ pc = "store"
    /\ historical_data' = store_history(historical_data, current_data)
    /\ result' = cycle_result(signal, all_analyses, wall_clock(cycles))
    /\ assembled' = Append(assembled, cycles)
    /\ pc' = "idle"
    /\ current_data' = None
    /\ all_analyses' = NotRun
    /\ scores' = NotRun
    /\ filters' = NotRun
    /\ tier' = "NONE"
    /\ signal' = NotRun
    /\ gen_pc' = "start"
    /\ UNCHANGED <<cycles, errors, replay>>

Next ==
    \/ FetchReturns
    \/ FetchRaises
    \/ RunAnalyses
    \/ AnalyzerRaises
    \/ GenerateSignal
    \/ GenerateSignalRaises
    \/ StoreAndReturn

Spec == EngineInit /\ [][Next]_vars

-----------------------------------------------------------------------------
(* run_enhanced_cycle called twice on one snapshot and one history: before  *)
(* each call the history is put back to what it was.                        *)

\* the histories a replayed cycle is run on
ReplayHistories == {<<>>} \cup {<<Snapshot(0, chain)>> : chain \in Chains}

ReplayInit ==
    /\ all_analyses = NotRun
    /\ scores = NotRun
    /\ filters = NotRun
    /\ tier = "NONE"
    /\ signal = NotRun
    /\ gen_pc = "start"
    /\ historical_data = <<>>
    /\ current_data = None
    /\ result = NotRun
    /\ pc = "idle"
    /\ cycles = 0
    /\ errors = 0
    /\ assembled = <<>>
    /\ \E chain \in Chains : \E history \in ReplayHistories :
          replay = [snapshot |-> Snapshot(1, chain), history |-> history, results |-> <<>>]

\* main.py:47-49, the fetch returning the snapshot of the replay
ReplayFetch ==
    /\ pc = "idle"
    /\ Len(replay.results) = cycles
    /\ cycles < 2
    /\ cycles' = cycles + 1
    /\ current_data' = replay.snapshot
    /\ historical_data' = replay.history
    /\ pc' = "analyze"
    /\ UNCHANGED <<result, errors, assembled, replay>>
    /\ UNCHANGED genVars

\* the caller keeps what run_enhanced_cycle returned (main.py:165)
ReplayRecord ==
    /\ pc = "idle"
    /\ Len(replay.results) < cycles
    /\ replay' = [replay EXCEPT !.results = Append(@, result)]
    /\ UNCHANGED <<historical_data, current_data, result, pc, cycles, errors, assembled>>
    /\ UNCHANGED genVars

ReplayNext ==
    \/ ReplayFetch
    \/ ReplayRecord
    \/ RunAnalyses
    \/ AnalyzerRaises
    \/ GenerateSignal
    \/ GenerateSignalRaises
    \/ StoreAndReturn

ReplaySpec == ReplayInit /\ [][ReplayNext]_vars

-----------------------------------------------------------------------------
(* Properties.                                                             *)

TrueFilters(fl) == {f \in FilterNames : fl[f]}

\* C1: for every valid result map the final_score returned by
\* _calculate_score_components lies in [0,100], also when the raw sum of the
\* ten components exceeds 100.
C1_FinalScoreInRange ==
    gen_pc = "returned" =>
        /\ scores.final_score >= 0
        /\ scores.final_score <= 100 * Scale

\* a raw sum above 100 was clamped to 100
C1_Witness ==
    /\ gen_pc = "returned"
    /\ total_score(all_analyses) > 100 * Scale
    /\ scores.final_score = 100 * Scale

\* C2: all_passed is true if and only if at least 4 of the six named filters
\* are true (false with exactly 3, true with exactly 4).
C2_AllPassedIffFourOfSix ==
    gen_pc = "returned" =>
        (filters.all_passed <=> Cardinality(TrueFilters(filters)) >= 4)

\* C3: the tier is chosen from (all_passed, final_score) only: STRONG iff
\* all_passed and final_score > 75, CAUTIOUS iff all_passed and
\* 60 < final_score <= 75, otherwise NO_TRADE, whose signal has direction
\* NO_TRADE and confidence 0 whatever the direction votes are.
C3_TierSelection ==
    gen_pc = "returned" =>
        /\ tier = "STRONG" <=>
              (filters.all_passed /\ scores.final_score > 75 * Scale)
        /\ tier = "CAUTIOUS" <=>
              (/\ filters.all_passed
               /\ scores.final_score > 60 * Scale
               /\ scores.final_score <= 75 * Scale)
        /\ tier = "NO_TRADE" <=>
              (~filters.all_passed \/ scores.final_score <= 60 * Scale)
        /\ tier = "NO_TRADE" => (signal.signal = "NO_TRADE" /\ signal.confidence = 0)

\* the gate is passed and the votes are for a call, the score is too low
C3_Witness ==
    /\ gen_pc = "returned"
    /\ tier = "NO_TRADE"
    /\ filters.all_passed
    /\ bull_components(all_analyses) > bear_components(all_analyses) + 1
    /\ signal.signal = "NO_TRADE"

\* C4: in the STRONG tier the direction is BUY_CALL exactly when
\* bullish > bearish + 1, BUY_PUT exactly when bearish > bullish + 1, and
\* otherwise NO_TRADE tagged MIXED_SIGNALS; a tie or a lead of one vote never
\* yields a trade.
C4_StrongTierDirection ==
    (gen_pc = "returned" /\ tier = "STRONG") =>
        LET bull == bull_components(all_analyses)
            bear == bear_components(all_analyses)
        IN  /\ signal.signal = "BUY_CALL" <=> bull > bear + 1
            /\ signal.signal = "BUY_PUT" <=> bear > bull + 1
            /\ (bull <= bear + 1 /\ bear <= bull + 1) =>
                  (signal.signal = "NO_TRADE" /\ signal.tags = <<"MIXED_SIGNALS">>)

\* a lead of exactly one vote in the STRONG tier
C4_Witness ==
    /\ gen_pc = "returned"
    /\ tier = "STRONG"
    /\ bull_components(all_analyses) = bear_components(all_analyses) + 1
    /\ signal.signal = "NO_TRADE"
    /\ signal.tags = <<"MIXED_SIGNALS">>

InTags(tag, tags) == \E i \in DOMAIN tags : tags[i] = tag

\* C5: whenever all_passed is true, final_score > 75 and the direction is
\* BUY_CALL or BUY_PUT, confidence = min(final_score + 10, 95) and the tags
\* include HIGH_CONFIDENCE and MULTI_FACTOR_ALIGNED; final_score 82 with
\* migration BULLISH and max pain UP gives 3 bullish votes, 0 bearish,
\* BUY_CALL and confidence 92.
C5_StrongConfidence ==
    /\ (/\ gen_pc = "returned"
        /\ filters.all_passed
        /\ scores.final_score > 75 * Scale
        /\ signal.signal \in {"BUY_CALL", "BUY_PUT"}) =>
            /\ signal.confidence =
                  (IF scores.final_score + 10 * Scale <= 95 * Scale
                   THEN scores.final_score + 10 * Scale ELSE 95 * Scale)
            /\ InTags("HIGH_CONFIDENCE", signal.tags)
            /\ InTags("MULTI_FACTOR_ALIGNED", signal.tags)
    /\ (gen_pc = "returned" /\ all_analyses = Map82) =>
            /\ scores.final_score = 82 * Scale
            /\ bull_components(all_analyses) = 3
            /\ bear_components(all_analyses) = 0
            /\ signal.signal = "BUY_CALL"
            /\ signal.confidence = 92 * Scale

\* the example of the specification
C5_Witness ==
    /\ gen_pc = "returned"
    /\ all_analyses = Map82
    /\ TrueFilters(filters) = FilterNames
    /\ signal.confidence = 92 * Scale

\* the cycles whose snapshots are in the history, oldest first
HistoryStamps == [i \in DOMAIN historical_data |-> historical_data[i].timestamp]

\* the last min(n, HistoryCap) of the cycles 1..n
LastCycles(n) ==
    LET m == IF n <= HistoryCap THEN n ELSE HistoryCap
    IN  [i \in 1..m |-> n - m + i]

\* C6: after n cycles historical_data holds exactly the snapshots of the
\* last min(n,100) cycles in arrival order.
C6_HistoryOfLastCycles ==
    pc = "idle" => HistoryStamps = LastCycles(cycles)

\* C7: for every analyses map, also with an absent or malformed analyzer
\* entry, generate_enhanced_signal returns a Signal whose direction is
\* BUY_CALL, BUY_PUT or NO_TRADE and never raises.
C7_NeverRaises ==
    /\ gen_pc # "raised"
    /\ gen_pc = "returned" => signal.signal \in {"BUY_CALL", "BUY_PUT", "NO_TRADE"}

\* the analyzer whose result each filter reads
FilterSource ==
    [oi_quality_filter |-> "oi_quality",
     iv_skew_filter    |-> "iv_skew_enhanced",
     time_filter       |-> "time_decay",
     depth_filter      |-> "support_depth",
     elasticity_filter |-> "elasticity",
     mtf_filter        |-> "multi_timeframe"]

\* C8: a filter whose analyzer result is absent from the map is reported
\* false; with an empty map all six filters and all_passed are false.
C8_MissingAnalysisFailsFilter ==
    gen_pc = "returned" =>
        /\ \A f \in FilterNames :
              FilterSource[f] \notin DOMAIN all_analyses => ~filters[f]
        /\ all_analyses = EmptyMap =>
              (TrueFilters(filters) = {} /\ ~filters.all_passed)

\* the analyzer whose result each score component reads
ComponentSource ==
    [oi_quality_score   |-> "oi_quality",
     iv_alignment_score |-> "iv_skew_enhanced",
     time_score         |-> "time_decay",
     max_pain_score     |-> "max_pain",
     depth_score        |-> "support_depth",
     elasticity_score   |-> "elasticity",
     mtf_score          |-> "multi_timeframe",
     migration_score    |-> "oi_migration",
     pcr_score          |-> "zone_pcr",
     expiry_score       |-> "expiry_alignment"]

\* three fresh builds, no trapped position, phase GAMMA_GAME_PHASE, nothing else
FreshGammaMap ==
    [oi_quality |-> [fresh_build |-> ListOf(3), trapped_positions |-> ListOf(0)],
     time_decay |-> [time_phase |-> "GAMMA_GAME_PHASE"]]

\* C9: a score component whose analyzer result is absent from the map is 0,
\* so that the map with only three fresh builds and phase GAMMA_GAME_PHASE
\* has final_score 45.
C9_MissingAnalysisScoresZero ==
    gen_pc = "returned" =>
        /\ \A c \in DOMAIN ComponentSource :
              ComponentSource[c] \notin DOMAIN all_analyses => scores[c] = 0
        /\ all_analyses = FreshGammaMap => scores.final_score = 45 * Scale

\* C10: for all counts f of fresh builds and t of trapped positions the
\* oi_quality component is max(0, min(10*f, 30) - 5*t); it is 30 for f = 3
\* and t = 0.
C10_OIQualityFormula ==
    gen_pc = "returned" =>
        LET oi_quality == _get(all_analyses, "oi_quality", EmptyDict)
            f == Len(_get(oi_quality, "fresh_build", EmptyList))
            t == Len(_get(oi_quality, "trapped_positions", EmptyList))
            capped == IF 10 * f <= 30 THEN 10 * f ELSE 30
            net == IF capped - 5 * t >= 0 THEN capped - 5 * t ELSE 0
        IN  scores.oi_quality_score = net * Scale

\* the bearish counterpart of a bullish word, and back
SwapWord(w) ==
    CASE w = "BULLISH" -> "BEARISH"
      [] w = "BEARISH" -> "BULLISH"
      [] w = "UP" -> "DOWN"
      [] w = "DOWN" -> "UP"
      [] w = "CE_FEAR" -> "PE_FEAR"
      [] w = "PE_FEAR" -> "CE_FEAR"
      [] OTHER -> w

\* the map with every bullish input replaced by its bearish counterpart:
\* the migration trend, the max-pain direction and every skew type
SwapDirections(analyses) ==
    [k \in DOMAIN analyses |->
        LET r == analyses[k]
        IN  IF k = "oi_migration" /\ "migration_trend" \in DOMAIN r
            THEN [r EXCEPT !.migration_trend =
                    IF "overall" \in DOMAIN @ THEN [@ EXCEPT !.overall = SwapWord(@)] ELSE @]
            ELSE IF k = "max_pain" /\ "direction" \in DOMAIN r
            THEN [r EXCEPT !.direction = SwapWord(@)]
            ELSE IF k = "iv_skew_enhanced" /\ "one_sided_skew" \in DOMAIN r
            THEN [r EXCEPT !.one_sided_skew =
                    [strike \in DOMAIN @ |->
                        IF "skew_type" \in DOMAIN @[strike]
                        THEN [@[strike] EXCEPT !.skew_type = SwapWord(@)]
                        ELSE @[strike]]]
            ELSE r]

OppositeSignal(direction) ==
    CASE direction = "BUY_CALL" -> "BUY_PUT"
      [] direction = "BUY_PUT" -> "BUY_CALL"
      [] OTHER -> direction

\* C11: for any analyses map in the STRONG tier, swapping every bullish input
\* for its bearish counterpart (BULLISH<->BEARISH, UP<->DOWN,
\* CE_FEAR<->PE_FEAR) keeps the map in the STRONG tier, turns BUY_CALL into
\* BUY_PUT and BUY_PUT into BUY_CALL with the same confidence, and leaves
\* NO_TRADE as NO_TRADE.
C11_DirectionAntiSymmetric ==
    (gen_pc = "returned" /\ tier = "STRONG") =>
        LET swapped == SwapDirections(all_analyses)
            sc == _calculate_score_components(swapped)
            fl == _apply_advanced_filters(swapped)
            sig == _generate_final_signal(sc, swapped)
        IN  /\ ~generate_raises(swapped)
            /\ select_tier(fl.all_passed, sc.final_score) = "STRONG"
            /\ sig.signal = OppositeSignal(signal.signal)
            /\ sig.confidence = signal.confidence

\* a BUY_PUT of the STRONG tier whose swapped map votes for a call
C11_Witness ==
    /\ gen_pc = "returned"
    /\ tier = "STRONG"
    /\ signal.signal = "BUY_PUT"
    /\ SkewCount(all_analyses, {"PE_FEAR"}) > 0
    /\ bull_components(SwapDirections(all_analyses))
          > bear_components(SwapDirections(all_analyses)) + 1

\* C12: running the cycle twice on the same snapshot and the same history,
\* the append of the first run undone, returns identical values: what is
\* returned depends on the snapshot and the history only.
C12_ReplayIdentical ==
    Len(replay.results) = 2 => replay.results[1] = replay.results[2]

\* support_depth.air_pockets is non-empty
HasAirPockets ==
    /\ "support_depth" \in DOMAIN all_analyses
    /\ "air_pockets" \in DOMAIN all_analyses.support_depth
    /\ all_analyses.support_depth.air_pockets # <<>>

\* multi_timeframe.regime_shift.detected is true
RegimeShiftDetected ==
    /\ "multi_timeframe" \in DOMAIN all_analyses
    /\ "regime_shift" \in DOMAIN all_analyses.multi_timeframe
    /\ "detected" \in DOMAIN all_analyses.multi_timeframe.regime_shift
    /\ all_analyses.multi_timeframe.regime_shift.detected

\* C13: every Signal produced by one of the three tiers (STRONG, CAUTIOUS,
\* NO_TRADE) is returned carrying advanced_context and quality_metrics;
\* advanced_context contains AIR_POCKET_BREAKOUT_POTENTIAL whenever
\* support_depth.air_pockets is non-empty and REGIME_SHIFT_DETECTED whenever
\* multi_timeframe.regime_shift.detected is true.
C13_ContextAndMetricsAttached ==
    tier \in {"STRONG", "CAUTIOUS", "NO_TRADE"} =>
        /\ gen_pc = "returned"
        /\ {"advanced_context", "quality_metrics"} \subseteq DOMAIN signal
        /\ HasAirPockets =>
              InTags("AIR_POCKET_BREAKOUT_POTENTIAL", signal.advanced_context.opportunities)
        /\ RegimeShiftDetected =>
              InTags("REGIME_SHIFT_DETECTED", signal.advanced_context.risk_factors)

\* the cycle has returned the dict of the except branch
ErrorReturned ==
    /\ pc = "idle"
    /\ result.signal = "NO_TRADE"
    /\ result.confidence = 0
    /\ InTags("ERROR", result.tags)

\* C14: if a step of run_enhanced_cycle fails (the fetch, an analyzer, the
\* signal generation), the cycle still returns a result, with signal
\* NO_TRADE, confidence 0 and a tag list containing ERROR; the failure does
\* not escape the cycle.
C14_FailureReturnsErrorSignal ==
    [][/\ (pc = "analyze" /\ analyzers_raise(current_data, historical_data)) => ErrorReturned'
       /\ (pc = "generate" /\ generate_raises(all_analyses)) => ErrorReturned'
       /\ errors' # errors => (errors' = errors + 1 /\ ErrorReturned')
       /\ (cycles' # cycles /\ pc' = "idle") => (errors' = errors + 1 /\ ErrorReturned')]_vars

\* an analyzer failed on a non-empty history and the ERROR result was returned
C14_Witness ==
    /\ pc = "idle"
    /\ errors > 0
    /\ Len(historical_data) = 1
    /\ result.signal = "NO_TRADE"
    /\ result.confidence = 0
    /\ result.tags = <<"ERROR", "AttributeError">>

\* C15: within one cycle the history buffer is unchanged while the analyzers
\* and the signal generator run; it is changed only after the Signal has
\* been assembled, by one append of the current snapshot (the oldest entry
\* evicted if the length exceeds 100), and every cycle that assembles a
\* Signal performs this append before it returns.
C15_HistoryMutatedOnceAfterAssembly ==
    [][/\ pc # "store" => (historical_data' = historical_data /\ assembled' = assembled)
       /\ pc = "store" =>
             /\ signal # NotRun
             /\ historical_data' =
                   (IF Len(historical_data) + 1 > HistoryCap
                    THEN SubSeq(historical_data, 2, Len(historical_data)) \o <<current_data>>
                    ELSE historical_data \o <<current_data>>)
             /\ pc' = "idle"
             /\ assembled' = assembled \o <<cycles>>]_vars

\* the first cycle assembled a Signal and appended its snapshot; the cycles
\* after it left the history as it was
C15_Witness ==
    /\ pc = "idle"
    /\ assembled = <<1>>
    /\ cycles > 2
    /\ Len(historical_data) = 1
    /\ historical_data[1].timestamp = 1
    /\ errors = cycles - 1

\* C16: cycles against the one history buffer are serialized: a cycle begins
\* (and reads the history) only when no cycle is running and every earlier
\* cycle has completed its append or returned through the except branch, so
\* the reads and appends of two cycles never interleave.
C16_CyclesSerialized ==
    [][cycles' # cycles =>
          /\ pc = "idle"
          /\ current_data = None
          /\ Len(assembled) + errors = cycles
          /\ cycles' = cycles + 1]_vars

\* the second cycle is reading the history, the append of the first is done
C16_Witness ==
    /\ pc = "analyze"
    /\ cycles = 2
    /\ assembled = <<1>>
    /\ historical_data = <<Snapshot(1, "MAP82")>>
    /\ current_data.timestamp = 2

VoteSources == {"oi_migration", "max_pain", "iv_skew_enhanced"}

\* all_analyses without the results of the analyzers that carry no vote
OnlyVoteSources == [k \in DOMAIN all_analyses \cap VoteSources |-> all_analyses[k]]

\* the strikes of one_sided_skew flagged with a skew type
StrikesFlagged(type) ==
    IF /\ "iv_skew_enhanced" \in DOMAIN all_analyses
       /\ "one_sided_skew" \in DOMAIN all_analyses.iv_skew_enhanced
    THEN {strike \in DOMAIN all_analyses.iv_skew_enhanced.one_sided_skew :
            all_analyses.iv_skew_enhanced.one_sided_skew[strike].skew_type = type}
    ELSE {}

\* oi_migration.migration_trend.overall, if present
TrendWord ==
    IF /\ "oi_migration" \in DOMAIN all_analyses
       /\ "migration_trend" \in DOMAIN all_analyses.oi_migration
    THEN all_analyses.oi_migration.migration_trend.overall ELSE None

\* max_pain.direction, if present
DirectionWord ==
    IF "max_pain" \in DOMAIN all_analyses /\ "direction" \in DOMAIN all_analyses.max_pain
    THEN all_analyses.max_pain.direction ELSE None

\* C19: the vote tally has exactly three sources with fixed weights: a
\* BULLISH migration trend adds 2 bullish votes and a BEARISH one 2 bearish
\* votes (anything else none); max-pain direction UP adds 1 bullish and DOWN
\* 1 bearish; each CE_FEAR strike of one_sided_skew adds 1 bullish and each
\* PE_FEAR strike 1 bearish, with no cap on the number of strikes; no other
\* analysis changes the tally (it is the tally of the map that holds the
\* three sources only).  The STRONG tier resolves the direction from this
\* tally.
C19_VoteTally ==
    gen_pc = "returned" =>
        LET bull == (IF TrendWord = "BULLISH" THEN 2 ELSE 0)
                  + (IF DirectionWord = "UP" THEN 1 ELSE 0)
                  + Cardinality(StrikesFlagged("CE_FEAR"))
            bear == (IF TrendWord = "BEARISH" THEN 2 ELSE 0)
                  + (IF DirectionWord = "DOWN" THEN 1 ELSE 0)
                  + Cardinality(StrikesFlagged("PE_FEAR"))
        IN  /\ bull_components(all_analyses) = bull
            /\ bear_components(all_analyses) = bear
            /\ tier = "STRONG" =>
                  /\ signal.signal = "BUY_CALL" <=> bull > bear + 1
                  /\ signal.signal = "BUY_PUT" <=> bear > bull + 1
            /\ bull_components(OnlyVoteSources) = bull
            /\ bear_components(OnlyVoteSources) = bear

\* three CE_FEAR strikes are the only votes and carry the STRONG tier to a call
C19_Witness ==
    /\ gen_pc = "returned"
    /\ tier = "STRONG"
    /\ Cardinality(StrikesFlagged("CE_FEAR")) = 3
    /\ TrendWord = "NEUTRAL"
    /\ DirectionWord = "DOWN"
    /\ bull_components(all_analyses) = 3
    /\ bear_components(all_analyses) = 1
    /\ signal.signal = "BUY_CALL"

\* all_analyses without the results of the analyzers other than key
OnlyAnalyzer(key) == [k \in DOMAIN all_analyses \cap {key} |-> all_analyses[k]]

\* C20: each of the six filters equals its stated predicate on the result of
\* one analyzer: oi_quality_filter iff freshCount > 2 * trappedCount,
\* iv_skew_filter iff fear_zones.above or fear_zones.below, time_filter iff
\* time_phase is not SELLER_COMFORT_WINDOW, depth_filter iff air_pockets is
\* non-empty, elasticity_filter iff gamma_risk < 0.7, mtf_filter iff there
\* are at least 2 structural levels; the results of the other analyzers do
\* not change a filter: it has the value it has on the map that holds the
\* result of its analyzer only.
C20_FiltersAreSingleAnalyzerPredicates ==
    gen_pc = "returned" =>
        LET field(key, name, dflt) ==
                IF key \in DOMAIN all_analyses /\ name \in DOMAIN all_analyses[key]
                THEN all_analyses[key][name] ELSE dflt
            fear_zones == field("iv_skew_enhanced", "fear_zones", [above |-> FALSE, below |-> FALSE])
        IN  /\ filters.oi_quality_filter <=>
                  Len(field("oi_quality", "fresh_build", <<>>))
                      > 2 * Len(field("oi_quality", "trapped_positions", <<>>))
            /\ filters.iv_skew_filter <=> (fear_zones.above \/ fear_zones.below)
            /\ filters.time_filter <=>
                  field("time_decay", "time_phase", "") # "SELLER_COMFORT_WINDOW"
            /\ filters.depth_filter <=> field("support_depth", "air_pockets", <<>>) # <<>>
            /\ filters.elasticity_filter <=> field("elasticity", "gamma_risk", 0) < 70
            /\ filters.mtf_filter <=>
                  Len(field("multi_timeframe", "structural_levels", <<>>)) >= 2
            /\ \A f \in FilterNames :
                  _apply_advanced_filters(OnlyAnalyzer(FilterSource[f]))[f] = filters[f]

\* gamma_risk exactly 0.7 fails the elasticity filter, two structural levels
\* pass the mtf filter
C20_Witness ==
    /\ gen_pc = "returned"
    /\ "elasticity" \in DOMAIN all_analyses
    /\ _get(all_analyses.elasticity, "gamma_risk", 0) = 70
    /\ ~filters.elasticity_filter
    /\ "multi_timeframe" \in DOMAIN all_analyses
    /\ Len(_get(all_analyses.multi_timeframe, "structural_levels", <<>>)) = 2
    /\ filters.mtf_filter

\* C21: every Signal whose direction is BUY_CALL or BUY_PUT was admitted by
\* the gate and by the score: its filters_passed.all_passed is true, at
\* least 4 of its six filters are true and the final_score of its
\* score_breakdown is greater than 60.
C21_TradeOnlyWhenAdmitted ==
    (gen_pc = "returned" /\ signal.signal \in {"BUY_CALL", "BUY_PUT"}) =>
        /\ signal.filters_passed.all_passed
        /\ Cardinality({f \in FilterNames : signal.filters_passed[f]}) >= 4
        /\ signal.score_breakdown.final_score > 60 * Scale

\* a trade emitted by the cautious tier with exactly five true filters
C21_Witness ==
    /\ gen_pc = "returned"
    /\ tier = "CAUTIOUS"
    /\ signal.signal = "BUY_CALL"
    /\ Cardinality({f \in FilterNames : signal.filters_passed[f]}) = 5
    /\ signal.score_breakdown.final_score <= 75 * Scale

\* the direction and the confidence of a result r agree
ConfidenceMatches(r) ==
    /\ r.signal \in {"NO_TRADE", "BUY_CALL", "BUY_PUT"}
    /\ r.signal = "NO_TRADE" <=> r.confidence = 0
    /\ r.signal \in {"BUY_CALL", "BUY_PUT"} =>
          (r.confidence > 60 * Scale /\ r.confidence <= 95 * Scale)
    /\ r.confidence >= 0
    /\ r.confidence <= 100 * Scale

\* C22: in every result returned by a cycle (and in every Signal returned by
\* the generator) the direction is NO_TRADE if and only if the confidence is
\* 0; a BUY_CALL or BUY_PUT result has a confidence greater than 60 and at
\* most 95; the confidence is always within [0, 100].
C22_ConfidenceMatchesDirection ==
    /\ (pc = "idle" /\ cycles > 0) => ConfidenceMatches(result)
    /\ gen_pc = "returned" => ConfidenceMatches(signal)

\* a cycle returned BUY_PUT from the strong tier with the confidence at its
\* cap of 95
C22_Witness ==
    /\ pc = "idle"
    /\ cycles > 0
    /\ errors = 0
    /\ result.signal = "BUY_PUT"
    /\ result.confidence = 95 * Scale
    /\ InTags("HIGH_CONFIDENCE", result.tags)

\* C23: a cycle that fails at any step up to and including the signal
\* generation and returns the ERROR signal leaves historical_data exactly as
\* it was before the cycle: its snapshot is not appended and nothing is
\* evicted; the history changes only in a cycle that assembled a Signal.
C23_FailedCycleLeavesHistory ==
    [][/\ errors' # errors =>
             /\ ErrorReturned'
             /\ historical_data' = historical_data
             /\ assembled' = assembled
       /\ historical_data' # historical_data =>
             /\ errors' = errors
             /\ signal # NotRun
             /\ assembled' = Append(assembled, cycles)]_vars

\* every cycle so far failed, the last one in the signal generation, after
\* its snapshot was fetched and analysed; the history is still empty
C23_Witness ==
    /\ pc = "idle"
    /\ errors = cycles
    /\ cycles >= 2
    /\ historical_data = <<>>
    /\ assembled = <<>>
    /\ result.tags = <<"ERROR", "KeyError">>

====
